---- MODULE Spec2Model ----
(***************************************************************************)
(* A model of the 3D keyboard: the per-key press / release / update state  *)
(* machine (Key.js), the keyboard assembly that fans calls out to its keys *)
(* (Keyboard.js), the input handler (InputHandler.js), the lighting and    *)
(* layout settings (SettingsManager.js) and the frame loop (main.js).      *)
(*                                                                         *)
(* Units.  The code computes in IEEE doubles; the model computes in fixed  *)
(* point and rounds to the nearest unit:                                   *)
(*   lengths   : 1 unit = 0.0001 m    (0.003 m = 30, 0.0001 m = 1)         *)
(*   keycap dimensions : 1 unit = 0.00001 m   (KEY_UNIT 0.019 m = 1900)    *)
(*   time      : 1 tick = 1/60 s      (deltaTime = 1/60 s is dt = 1)       *)
(*   opacity   : 1 unit = 0.000001    (0.95 = 950000)                      *)
(*   sin, glow, HSL components : 1 unit = 0.001                            *)
(*   hue of the cycle effect   : 1 unit = 1/600 (a turn takes 600 ticks)   *)
(*   gemini phase              : 1 unit = 1/600 rad                        *)
(***************************************************************************)
EXTENDS Integers, Sequences, FiniteSets, TLC

----------------------------------------------------------------------------
(* Arithmetic helpers *)

Abs(a) == IF a < 0 THEN -a ELSE a

Min(a, b) == IF a <= b THEN a ELSE b

Max(a, b) == IF a >= b THEN a ELSE b

\* a / b rounded to the nearest integer, halves away from zero (b > 0)
RoundDiv(a, b) == IF a >= 0 THEN (2 * a + b) \div (2 * b)
                  ELSE -((2 * (-a) + b) \div (2 * b))

\* a / b rounded to the nearest integer for a divisor of either sign (b # 0)
RoundQuot(a, b) == IF b > 0 THEN RoundDiv(a, b) ELSE RoundDiv(-a, -b)

\* Math.sin of an angle given in whole degrees, in thousandths
\* (Bhaskara's rational approximation, exact at 0, 30, 90, 150, 180 degrees)
SinDeg(deg) ==
  LET d == deg % 360
      B(x) == (4000 * x * (180 - x)) \div (40500 - x * (180 - x))
  IN IF d <= 180 THEN B(d) ELSE -B(d - 180)

\* Math.sin(k * p / 600), p in 1/600 rad, k = num/den; pi is taken as 355/113
SinPhase(p, num, den) == SinDeg(RoundDiv(p * num * 180 * 113, den * 600 * 355))

----------------------------------------------------------------------------
(* KeyboardLayout.js: palette and layout (the entries the model builds) *)

\* COLORS, as the (h, s, l) triple THREE.Color.getHSL yields for the hex value
COLORS == [alphaKeys    |-> [h |-> 0,   s |-> 0,   l |-> 973],
           modKeys      |-> [h |-> 591, s |-> 80,  l |-> 731],
           accentTeal   |-> [h |-> 480, s |-> 611, l |-> 567],
           accentOrange |-> [h |-> 18,  s |-> 772, l |-> 604],
           accentYellow |-> [h |-> 127, s |-> 905, l |-> 586]]

\* KEYBOARD_LAYOUT: x and width in quarter grid units, y in rows
KEYBOARD_LAYOUT ==
  << [code |-> "KeyA",      label |-> "A",       width |-> 4,  x |-> 7,  y |-> 2, color |-> "alphaKeys"],
     [code |-> "MetaLeft",  label |-> "cmd",     width |-> 5,  x |-> 5,  y |-> 4, color |-> "modKeys"],
     [code |-> "AltLeft",   label |-> "opt",     width |-> 5,  x |-> 10, y |-> 4, color |-> "modKeys"],
     [code |-> "Space",     label |-> "",        width |-> 25, x |-> 15, y |-> 4, color |-> "accentYellow"],
     [code |-> "AltRight",  label |-> "opt",     width |-> 4,  x |-> 40, y |-> 4, color |-> "modKeys"],
     [code |-> "MetaRight", label |-> "cmd",     width |-> 4,  x |-> 44, y |-> 4, color |-> "modKeys"] >>

LayoutCodes == { KEYBOARD_LAYOUT[i].code : i \in DOMAIN KEYBOARD_LAYOUT }

LayoutEntry(code) ==
  KEYBOARD_LAYOUT[CHOOSE i \in DOMAIN KEYBOARD_LAYOUT : KEYBOARD_LAYOUT[i].code = code]

----------------------------------------------------------------------------
(* Key.js *)

\* Keyboard constructor: caseBaseHeight (0.014) + plateHeight (0.002)
keyBaseY == 140 + 20

\* press(): this.targetY = this.originalY - 0.003
PressDepth == 30

\* update(): Math.abs(diff) > 0.0001
SnapEpsilon == 1

\* update(): const speed = 30
speed == 30

\* createUnderglow(): opacity: 0.35
InitialGlowOpacity == 350000

\* press(): this.underglowMesh.material.opacity = 0.9
PressGlowOpacity == 900000

\* release(): this.underglowMesh.material.opacity = 0.25
ReleaseGlowOpacity == 250000

\* update(): pressed keys glow at 0.95
PressedOpacity == 950000

\* update(): const pulseRate = 1.5 seconds per cycle, in ticks
pulseRate == 90

\* a constructor without `|| COLORS.alphaKeys`: a role the palette lacks
\* yields undefined, which THREE.Color takes as no colour at all
NewKeyNoFallback(keyData, h0) ==
  LET baseColor == IF keyData.color \in DOMAIN COLORS
                   THEN COLORS[keyData.color] ELSE [h |-> 0, s |-> 0, l |-> 1000]
  IN [ code          |-> keyData.code,
       colorName     |-> keyData.color,
       width         |-> keyData.width,
       x             |-> keyData.x,
       y             |-> keyData.y,
       isPressed     |-> FALSE,
       color         |-> baseColor,
       originalColor |-> baseColor,
       opacity       |-> InitialGlowOpacity,
       glowColor     |-> <<"hex", "#ffffff">>,
       pulseTime     |-> 0,
       hue           |-> h0,
       reactiveGlow  |-> 0,
       geminiTime    |-> 0,
       posY          |-> keyBaseY,
       originalY     |-> keyBaseY,
       targetY       |-> keyBaseY ]

\* new Key(keyData) followed by the positioning done in Keyboard.createKeys;
\* h0 is the value Math.random() yields for the start hue
NewKey(keyData, h0) ==
  LET baseColor == IF keyData.color \in DOMAIN COLORS
                   THEN COLORS[keyData.color] ELSE COLORS.alphaKeys
  IN [ code          |-> keyData.code,
       colorName     |-> keyData.color,
       width         |-> keyData.width,
       x             |-> keyData.x,
       y             |-> keyData.y,
       isPressed     |-> FALSE,
       color         |-> baseColor,
       originalColor |-> baseColor,
       opacity       |-> InitialGlowOpacity,
       glowColor     |-> <<"hex", "#ffffff">>,
       pulseTime     |-> 0,
       hue           |-> h0,
       reactiveGlow  |-> 0,
       geminiTime    |-> 0,
       posY          |-> keyBaseY,
       originalY     |-> keyBaseY,
       targetY       |-> keyBaseY ]

\* press() without its guard, lightening the colour the keycap shows
pressLightensCurrent(k) ==
  [k EXCEPT !.isPressed = TRUE,
            !.targetY   = k.originalY - PressDepth,
            !.color     = [h |-> k.color.h, s |-> k.color.s,
                           l |-> Min(1000, k.color.l + 200)],
            !.opacity   = PressGlowOpacity]

\* Key.press()
press(k) ==
  IF k.isPressed THEN k
  ELSE [k EXCEPT !.isPressed = TRUE,
                 !.targetY   = k.originalY - PressDepth,
                 !.color     = [h |-> k.originalColor.h,
                                s |-> k.originalColor.s,
                                l |-> Min(1000, k.originalColor.l + 200)],
                 !.opacity   = PressGlowOpacity]

\* a release that leaves the target offset where press() put it
releaseKeepsTarget(k) ==
  IF ~k.isPressed THEN k
  ELSE [k EXCEPT !.isPressed = FALSE,
                 !.color     = k.originalColor,
                 !.opacity   = ReleaseGlowOpacity]

\* Key.release()
release(k) ==
  IF ~k.isPressed THEN k
  ELSE [k EXCEPT !.isPressed = FALSE,
                 !.targetY   = k.originalY,
                 !.color     = k.originalColor,
                 !.opacity   = ReleaseGlowOpacity]

\* the press animation with the speed factor left out
updateOffsetNoSpeed(k, dt) ==
  LET diff == k.targetY - k.posY
  IN IF Abs(diff) > SnapEpsilon
     THEN k.posY + RoundDiv(diff * dt, 60)
     ELSE k.targetY

\* Key.update(), first block: the press animation of group.position.y
updateOffset(k, dt) ==
  LET diff == k.targetY - k.posY
  IN IF Abs(diff) > SnapEpsilon
     THEN k.posY + RoundDiv(diff * speed * dt, 60)
     ELSE k.targetY

\* a decay scaled by the frame time: 0.92 once per 1/60 s
reactiveDecayPerTime(glow, dt) ==
  IF dt <= 1 THEN (glow * 92) \div 100 ELSE (((glow * 92) \div 100) * 92) \div 100

\* this.reactiveGlow = (this.reactiveGlow || 0) * 0.92, whatever deltaTime is
reactiveDecay(glow, dt) == (glow * 92) \div 100

\* a base opacity that maps brightness 0-100 onto 0.1-1.0
baseOpacityFullRange(settings) == 100000 + settings.brightness * 9000

\* baseOpacity = 0.1 + (settings.brightness / 100) * 0.8
baseOpacity(settings) == 100000 + settings.brightness * 8000

\* Key.update(), second block: the underglow for the current frame
updateUnderglow(k, dt, settings) ==
  IF dt = 0 THEN k
  ELSE IF ~settings.enabled THEN [k EXCEPT !.opacity = 0]
  ELSE
    LET pressOpacity == IF k.isPressed THEN PressedOpacity ELSE baseOpacity(settings)
    IN CASE settings.effect = "stable" ->
              [k EXCEPT !.glowColor = <<"hex", settings.color>>,
                        !.opacity   = pressOpacity]
         [] settings.effect = "pulse" ->
              LET t     == k.pulseTime + dt
                  \* pulse = (sin(t * 2 * PI / pulseRate) + 1) / 2, times 2000
                  pulse2 == SinDeg((t * 360) \div pulseRate) + 1000
              IN [k EXCEPT !.pulseTime = t,
                           !.glowColor = <<"hex", settings.color>>,
                           !.opacity   = IF k.isPressed THEN PressedOpacity
                                         ELSE (2000 + 3 * pulse2) * settings.brightness]
         [] settings.effect = "cycle" ->
              LET h == (k.hue + dt) % 600
              IN [k EXCEPT !.hue       = h,
                           !.glowColor = <<"hsl", h, 900, 500>>,
                           !.opacity   = pressOpacity]
         [] settings.effect = "reactive" ->
              LET g == IF k.isPressed THEN 1000 ELSE reactiveDecay(k.reactiveGlow, dt)
              IN [k EXCEPT !.reactiveGlow = g,
                           !.glowColor    = <<"hex", settings.color>>,
                           !.opacity      = g * settings.brightness * 9]
         [] settings.effect = "gemini" ->
              LET t         == k.geminiTime + 8 * dt
                  wavePhase == t + 75 * k.x + 180 * k.y
                  geminiHue   == 550 + RoundDiv(SinPhase(wavePhase, 1, 1) * 15, 100)
                  geminiSat   == 850 + RoundDiv(SinPhase(wavePhase, 3, 2), 10)
                  geminiLight == 500 + RoundDiv(SinPhase(wavePhase, 2, 1), 10)
                  waveOpacity == RoundDiv((baseOpacity(settings) \div 1000)
                                            * (4000 + SinPhase(wavePhase, 3, 2)), 5)
              IN [k EXCEPT !.geminiTime = t,
                           !.glowColor  = <<"hsl", geminiHue, geminiSat, geminiLight>>,
                           !.opacity    = IF k.isPressed THEN PressedOpacity
                                          ELSE waveOpacity]
         [] OTHER -> [k EXCEPT !.opacity = pressOpacity]

\* Key.update(deltaTime)
update(k, dt, settings) ==
  updateUnderglow([k EXCEPT !.posY = updateOffset(k, dt)], dt, settings)

----------------------------------------------------------------------------
(* SettingsManager.js *)

\* KEYCAP_LABELS_MACOS / KEYCAP_LABELS_WINDOWS; the glyphs are written in
\* ASCII: "cmd" is the command glyph, "opt" the option glyph, "win" the
\* windows glyph
KEYCAP_LABELS_MACOS ==
  [MetaLeft |-> "cmd", MetaRight |-> "cmd", AltLeft |-> "opt", AltRight |-> "opt"]

KEYCAP_LABELS_WINDOWS ==
  [MetaLeft |-> "win", MetaRight |-> "win", AltLeft |-> "Alt", AltRight |-> "Alt"]

\* getKeycapLabel(code, defaultLabel) under the layout `layout`
getKeycapLabel(layout, code, defaultLabel) ==
  LET labels == IF layout = "macos" THEN KEYCAP_LABELS_MACOS ELSE KEYCAP_LABELS_WINDOWS
  IN IF code \in DOMAIN labels /\ labels[code] # "" THEN labels[code] ELSE defaultLabel

\* let lightingSettings = { enabled: false, brightness: 50, color, effect: 'cycle' }
InitialLightingSettings ==
  [enabled |-> FALSE, brightness |-> 50, color |-> "#00ffff", effect |-> "cycle"]

\* setLightingBrightness: Math.max(0, Math.min(100, brightness))
ClampBrightness(b) == Max(0, Min(100, b))

\* setTheme(themeName): only a name of KEYBOARD_THEMES is taken
setTheme(theme, themeName, themes) == IF themeName \in themes THEN themeName ELSE theme

----------------------------------------------------------------------------
(* Bounds of the model and the inputs the environment may supply *)

\* largest distance of a key from its rest position the model follows
MaxOffset == 60

\* ticks the effects' phase accumulators may advance in the lighting model
MaxLightTicks == 4

\* frames the lighting model follows
MaxLightFrames == 4

\* legend textures that may be allocated in all
MaxTextures == 17

\* event.code values the input events carry; "F13" is not in the layout
EventCodes == {"KeyA", "Space", "F13"}

\* deltaTime of a frame, in ticks: 60 fps and 30 fps
FrameDts == {1, 2}

\* frame times that include a slow frame loop: 60, 30 and 15 fps
SlowDts == {1, 2, 4}

\* frame rates of the lighting model
LightDts == {1, 2}

\* the earliest start hue Math.random() yields in the model, in 1/600 turn
HueStart == 600 - 2

Effects == {"stable", "pulse", "cycle", "reactive", "gemini"}

\* effect names the settings panel can pass; "off" is none of the five
EffectInputs == Effects \cup {"off"}

BrightnessInputs == {0, 130}

ColorInputs == {"#ff8800"}

Layouts == {"macos", "windows"}

\* color tags a layout entry may carry: the roles of the palette, two tags
\* of the layout tables that COLORS lacks, and "" for an entry without one
ColorRoleInputs == DOMAIN COLORS \cup {"darkGrey", "escBlack", ""}

\* rebuilds the model follows
MaxRebuilds == 2

\* names of KEYBOARD_THEMES the model uses
Themes == {"default", "slate"}

\* values the theme selector can pass; "neon" is no theme
ThemeInputs == Themes \cup {"neon"}

\* the layout entry whose Key constructor throws while a keyboard is built
\* (its createLegend gets no 2d context); 0 when none throws
FailPoints == {0} \cup {i \in DOMAIN KEYBOARD_LAYOUT : KEYBOARD_LAYOUT[i].label # ""}

----------------------------------------------------------------------------
(* State *)

VARIABLES
  keys,             \* Keyboard.keys: code -> Key (press and lighting state)
  legends,          \* per key: label, whether a legend mesh exists, its texture
  geometry,         \* per key: the keycap geometry object of keycapMesh
  textureCount,     \* legend textures allocated so far (ids 1..textureCount)
  disposed,         \* legend textures on which dispose() was called
  pressedKeys,      \* InputHandler.pressedKeys
  lightingSettings, \* SettingsManager lightingSettings
  currentLayout,    \* SettingsManager currentLayout
  clockRunning,     \* THREE.Clock.running of App.clock
  threw,            \* an exception escaped a handler
  lastInput,        \* history: the InputHandler event handled last
  frames,           \* history: frames run so far where the model counts them
  geometryCache,    \* the geometry cache: signature -> geometry object
  geometryCount,    \* keycap geometries built so far (ids 1..geometryCount)
  geometryDisposals,\* dispose() calls on keycap geometries: [id, by]
  inScene,          \* App.keyboard's group is a child of the scene
  handlerAttached,  \* the listeners of App.inputHandler are registered
  keyboardDisposed, \* the resources of App.keyboard were disposed
  rebuildLog,       \* history: the steps of the rebuilds, in order
  rebuilds,         \* history: calls of rebuildKeyboard so far
  currentTheme,     \* SettingsManager currentTheme
  disposeCalls,     \* history: the dispose() calls of the last rebuild's
                    \* `if (this.keyboard)` block: [target, at]
  keyboardId,       \* which Keyboard App.keyboard is: 0, or the rebuild that
                    \* made it
  listeners,        \* the InputHandlers with listeners on the window, each
                    \* named by the Keyboard it drives
  pressCalls,       \* history: per held code, the pressKey calls the handler
                    \* made for it since it went down
  indicatorVisible, \* the key indicator carries the class 'visible'
  indicatorTimeout, \* InputHandler.indicatorTimeout is a pending timer
  build             \* a run of createRealisticKeycapGeometry: its caller, its
                    \* arguments, the vertices done and the last one

vars == << keys, legends, geometry, textureCount, disposed, pressedKeys,
           lightingSettings, currentLayout, clockRunning, threw, lastInput, frames,
           geometryCache, geometryCount, geometryDisposals, inScene,
           handlerAttached, keyboardDisposed, rebuildLog, rebuilds, currentTheme,
           disposeCalls, keyboardId, listeners, pressCalls, indicatorVisible,
           indicatorTimeout, build >>

assemblyVars == << geometryCache, geometryCount, geometryDisposals, inScene,
                   handlerAttached, keyboardDisposed, rebuildLog, rebuilds,
                   currentTheme, disposeCalls, keyboardId, listeners >>

keyVars == << keys, pressedKeys, pressCalls >>

indicatorVars == << indicatorVisible, indicatorTimeout >>

legendVars == << legends, geometry, textureCount, disposed >>

settingVars == << lightingSettings, currentLayout >>

\* getLightingSettings(): a copy of the settings
getLightingSettings == lightingSettings

----------------------------------------------------------------------------
(* Key.js: keycap dimensions and the geometry cache *)

\* KEY_UNIT = 0.019
KEY_UNIT == 1900

\* KEY_GAP = 0.0015
KEY_GAP == 150

\* const baseHeight = 0.008
baseHeight == 800

\* const taperOffset = 0.0015
taperOffset == 150

\* const keyWidth = (this.width * KEY_UNIT) - KEY_GAP, width in quarter units
keyWidth(keyData) == (keyData.width * KEY_UNIT) \div 4 - KEY_GAP

\* const keyDepth = KEY_UNIT - KEY_GAP
keyDepth == KEY_UNIT - KEY_GAP

\* this.row = Math.floor(keyData.y) + 1
row(keyData) == keyData.y + 1

\* const segments = 16
segments == 16

\* const cornerRadius = 0.0012
cornerRadius == 120

\* const topEdgeRadius = 0.0008
topEdgeRadius == 80

\* const scoopDepth = 0.0006
scoopDepth == 60

\* y += convexEffect * 0.0015
convexHeight == 150

\* Math.sign
Sign(v) == IF v > 0 THEN 1 ELSE IF v < 0 THEN -1 ELSE 0

\* Math.sqrt, rounded down
Sqrt(n) == CHOOSE r \in 0 .. 2000 : r * r <= n /\ n < (r + 1) * (r + 1)

\* the g-th of the segments + 1 grid lines across a side of length size,
\* measured from the centre (THREE.BoxGeometry)
GridCoord(g, size) == RoundDiv((2 * g - segments) * size, 2 * segments)

\* the i-th vertex of new THREE.BoxGeometry(width, height, depth, segments,
\* segments, segments): six planes (+x, -x, +y, -y, +z, -z) of
\* (segments + 1) x (segments + 1) vertices each
BoxVertex(width, height, depth, i) ==
  LET n     == segments + 1
      plane == i \div (n * n)
      iy    == (i % (n * n)) \div n
      ix    == i % n
  IN CASE plane = 0 -> [x |-> GridCoord(segments, width), y |-> -GridCoord(iy, height),
                        z |-> -GridCoord(ix, depth), level |-> segments - iy]
       [] plane = 1 -> [x |-> -GridCoord(segments, width), y |-> -GridCoord(iy, height),
                        z |-> GridCoord(ix, depth), level |-> segments - iy]
       [] plane = 2 -> [x |-> GridCoord(ix, width), y |-> GridCoord(segments, height),
                        z |-> GridCoord(iy, depth), level |-> segments]
       [] plane = 3 -> [x |-> GridCoord(ix, width), y |-> -GridCoord(segments, height),
                        z |-> -GridCoord(iy, depth), level |-> 0]
       [] plane = 4 -> [x |-> GridCoord(ix, width), y |-> -GridCoord(iy, height),
                        z |-> GridCoord(segments, depth), level |-> segments - iy]
       [] OTHER     -> [x |-> -GridCoord(ix, width), y |-> -GridCoord(iy, height),
                        z |-> -GridCoord(segments, depth), level |-> segments - iy]

\* position.count of that box
VertexCount == 6 * (segments + 1) * (segments + 1)

\* a taper that widens the keycap toward the top
taperWidening(v, half, currentTaper) == RoundDiv(v * (half + currentTaper), half)

\* x *= (halfW - currentTaper) / halfW
taper(v, half, currentTaper) == RoundDiv(v * (half - currentTaper), half)

\* a scoop whose depth varies with the start hue of the key
applyScoopJittered(this, x, y, halfH, currentW) ==
  IF this.code # "Space" /\ 10 * y > 9 * halfH
  THEN LET normX       == RoundQuot(x * 1000, currentW - cornerRadius)
           scoopEffect == Max(0, 1000 - RoundDiv(normX * normX, 1000))
       IN IF 100 * y > 95 * halfH
          THEN y - RoundDiv(scoopEffect * (scoopDepth + (this.hue % 7)), 1000)
          ELSE y
  ELSE y

\* the cylindrical scoop of a key other than the spacebar:
\* y -= scoopEffect * scoopDepth above 0.95 * halfH
applyScoop(this, x, y, halfH, currentW) ==
  IF this.code # "Space" /\ 10 * y > 9 * halfH
  THEN LET normX       == RoundQuot(x * 1000, currentW - cornerRadius)
           scoopEffect == Max(0, 1000 - RoundDiv(normX * normX, 1000))
       IN IF 100 * y > 95 * halfH
          THEN y - RoundDiv(scoopEffect * scoopDepth, 1000)
          ELSE y
  ELSE y

\* the body of the vertex loop of createRealisticKeycapGeometry(width, depth,
\* height, taperOffset) called on the Key `this`, for the box vertex v
displaceVertex(this, width, depth, height, taperOff, v) ==
  LET halfW        == RoundDiv(width, 2)
      halfD        == RoundDiv(depth, 2)
      halfH        == RoundDiv(height, 2)
      currentTaper == RoundDiv((v.y + halfH) * taperOff, height)
      x1           == taper(v.x, halfW, currentTaper)
      z1           == taper(v.z, halfD, currentTaper)
      absX         == Abs(x1)
      absZ         == Abs(z1)
      currentW     == halfW - currentTaper
      currentD     == halfD - currentTaper
      innerW       == currentW - cornerRadius
      innerD       == currentD - cornerRadius
      dx           == absX - innerW
      dz           == absZ - innerD
      dist         == Sqrt(dx * dx + dz * dz)
      rounded      == absX > innerW /\ absZ > innerD /\ dist > cornerRadius
      x2           == IF rounded
                      THEN (innerW + RoundDiv(dx * cornerRadius, dist)) * Sign(x1)
                      ELSE x1
      z2           == IF rounded
                      THEN (innerD + RoundDiv(dz * cornerRadius, dist)) * Sign(z1)
                      ELSE z1
      y1           == IF v.y > halfH - topEdgeRadius * 2
                      THEN applyScoop(this, x2, v.y, halfH, currentW)
                      ELSE v.y
      y2           == IF this.code = "Space" /\ y1 > 0
                      THEN LET normZ  == RoundQuot(z2 * 1000, currentD - cornerRadius)
                               convex == Max(0, 1000 - RoundDiv(normZ * normZ, 1000))
                           IN y1 + RoundDiv(convex * convexHeight, 1000)
                      ELSE y1
  IN [x |-> x2, y |-> y2 + halfH, z |-> z2]

\* the Key variant with the sculpted row profile: const segments = 20
sculptedSegments == 20

\* const taperOffset = 0.0018
sculptedTaperOffset == 180

\* const cornerRadius = 0.0018
sculptedCornerRadius == 180

\* const topEdgeRadius = 0.0012
sculptedTopEdgeRadius == 120

\* const scoopDepth = 0.0012
sculptedScoopDepth == 120

\* y += convexEffect * 0.0020
sculptedConvexHeight == 200

\* the rows the profile table names
ProfileRows == 1 .. 5

\* const heightAdjust = rowHeightAdjust[row] || 0
rowHeightAdjust(r) ==
  CASE r = 1 -> 60
    [] r = 2 -> 30
    [] r = 3 -> 0
    [] r = 4 -> -20
    [] r = 5 -> -40
    [] OTHER -> 0

\* the i-th vertex of new THREE.BoxGeometry(width, height, depth, 20, 20, 20)
SculptedBoxVertex(width, height, depth, i) ==
  LET seg   == sculptedSegments
      n     == seg + 1
      plane == i \div (n * n)
      iy    == (i % (n * n)) \div n
      ix    == i % n
      G(g, size) == RoundDiv((2 * g - seg) * size, 2 * seg)
  IN CASE plane = 0 -> [x |-> G(seg, width), y |-> -G(iy, height),
                        z |-> -G(ix, depth), level |-> seg - iy]
       [] plane = 1 -> [x |-> -G(seg, width), y |-> -G(iy, height),
                        z |-> G(ix, depth), level |-> seg - iy]
       [] plane = 2 -> [x |-> G(ix, width), y |-> G(seg, height),
                        z |-> G(iy, depth), level |-> seg]
       [] plane = 3 -> [x |-> G(ix, width), y |-> -G(seg, height),
                        z |-> -G(iy, depth), level |-> 0]
       [] plane = 4 -> [x |-> G(ix, width), y |-> -G(iy, height),
                        z |-> G(seg, depth), level |-> seg - iy]
       [] OTHER     -> [x |-> -G(ix, width), y |-> -G(iy, height),
                        z |-> -G(seg, depth), level |-> seg - iy]

\* position.count of that box
SculptedVertexCount == 6 * (sculptedSegments + 1) * (sculptedSegments + 1)

\* a row offset added at every height alike
applyRowProfileUnscaled(y, halfH, height, heightAdjust) == y + heightAdjust

\* y += heightAdjust * (y + halfH) / height
applyRowProfile(y, halfH, height, heightAdjust) ==
  y + RoundDiv(heightAdjust * (y + halfH), height)

\* the body of the vertex loop of createRealisticKeycapGeometry(width, depth,
\* height, taperOffset, row) of the sculpted variant, for the box vertex v
sculptVertex(this, width, depth, height, taperOff, r, v) ==
  LET halfW        == RoundDiv(width, 2)
      halfD        == RoundDiv(depth, 2)
      halfH        == RoundDiv(height, 2)
      heightAdjust == rowHeightAdjust(r)
      currentTaper == RoundDiv((v.y + halfH) * taperOff, height)
      x1           == RoundDiv(v.x * (halfW - currentTaper), halfW)
      z1           == RoundDiv(v.z * (halfD - currentTaper), halfD)
      absX         == Abs(x1)
      absZ         == Abs(z1)
      currentW     == halfW - currentTaper
      currentD     == halfD - currentTaper
      innerW       == currentW - sculptedCornerRadius
      innerD       == currentD - sculptedCornerRadius
      dx           == absX - innerW
      dz           == absZ - innerD
      dist         == Sqrt(dx * dx + dz * dz)
      rounded      == absX > innerW /\ absZ > innerD /\ dist > sculptedCornerRadius
      x2           == IF rounded
                      THEN (innerW + RoundDiv(dx * sculptedCornerRadius, dist)) * Sign(x1)
                      ELSE x1
      z2           == IF rounded
                      THEN (innerD + RoundDiv(dz * sculptedCornerRadius, dist)) * Sign(z1)
                      ELSE z1
      y1           == IF /\ v.y > halfH - sculptedTopEdgeRadius * 2
                         /\ this.code # "Space"
                         /\ 100 * v.y > 85 * halfH
                         /\ 10 * v.y > 9 * halfH
                      THEN LET normX == RoundQuot(x2 * 1000, currentW - sculptedCornerRadius)
                               normZ == RoundQuot(z2 * 1000, currentD - sculptedCornerRadius)
                               scoopEffect ==
                                 Max(0, 1000 - RoundDiv(7 * normX * normX + 3 * normZ * normZ,
                                                        10000))
                               yFactor == RoundDiv((10 * v.y - 9 * halfH) * 1000, halfH)
                           IN v.y - RoundDiv(RoundDiv(scoopEffect * sculptedScoopDepth, 1000)
                                               * yFactor, 1000)
                      ELSE v.y
      y2           == IF this.code = "Space" /\ y1 > 0
                      THEN LET normZ  == RoundQuot(z2 * 1000, currentD - sculptedCornerRadius)
                               convex == Max(0, 1000 - RoundDiv(normZ * normZ, 1000))
                           IN y1 + RoundDiv(convex * sculptedConvexHeight, 1000)
                      ELSE y1
      y3           == applyRowProfile(y2, halfH, height, heightAdjust)
  IN [x |-> x2, y |-> y3 + halfH, z |-> z2]

\* a signature that also carries the key's code
GeometrySignatureWithCode(keyData) ==
  << keyWidth(keyData), keyDepth, baseHeight, taperOffset, row(keyData),
     keyData.code = "Space", keyData.code >>

\* the shape parameters of a key's keycap: the arguments the constructor
\* passes to createRealisticKeycapGeometry, and whether it is the spacebar
GeometrySignature(keyData) ==
  << keyWidth(keyData), keyDepth, baseHeight, taperOffset, row(keyData),
     keyData.code = "Space" >>

\* a cache without entries
EmptyCache == [sig \in {} |-> 0]

\* getOrCreate(signature) on the store st = [cache, count]: the entry on a
\* hit; on a miss a new geometry is built and inserted
getOrCreateGeometry(st, signature) ==
  IF signature \in DOMAIN st.cache
  THEN [cache |-> st.cache, count |-> st.count, geometry |-> st.cache[signature]]
  ELSE [cache    |-> st.cache @@ (signature :> st.count + 1),
        count    |-> st.count + 1,
        geometry |-> st.count + 1]

\* clearKeyCaches(): dispose every entry, then empty the cache
clearKeyCaches(cache, disposals) ==
  [cache     |-> EmptyCache,
   disposals |-> disposals \cup
                   {[id |-> cache[sig], by |-> "cache"] : sig \in DOMAIN cache}]

\* the keycap geometries of the first n layout entries, each Key constructor
\* asking the cache; st = [cache, count, geometry]
RECURSIVE buildGeometries(_, _)
buildGeometries(st, n) ==
  IF n = 0 THEN st
  ELSE LET prev == buildGeometries(st, n - 1)
           e    == KEYBOARD_LAYOUT[n]
           r    == getOrCreateGeometry([cache |-> prev.cache, count |-> prev.count],
                                       GeometrySignature(e))
       IN [cache    |-> r.cache,
           count    |-> r.count,
           geometry |-> prev.geometry @@ (e.code :> r.geometry)]

\* the build of a whole keyboard on an empty cache
InitialGeometries ==
  buildGeometries([cache |-> EmptyCache, count |-> 0, geometry |-> EmptyCache],
                  Len(KEYBOARD_LAYOUT))

----------------------------------------------------------------------------
(* Keyboard.js *)

\* number of layout entries up to the i-th that carry a legend
RECURSIVE LegendCount(_)
LegendCount(i) ==
  IF i = 0 THEN 0
  ELSE LegendCount(i - 1) + (IF KEYBOARD_LAYOUT[i].label # "" THEN 1 ELSE 0)

LayoutIndex(code) ==
  CHOOSE i \in DOMAIN KEYBOARD_LAYOUT : KEYBOARD_LAYOUT[i].code = code

\* createKeys that builds a Key only for the entries that carry a label
createKeysLabelled(hues) ==
  [c \in {d \in LayoutCodes : LayoutEntry(d).label # ""} |->
     NewKey(LayoutEntry(c), hues[c])]

\* Keyboard.createKeys: one Key per layout entry; hues(code) is the start hue
createKeys(hues) ==
  [c \in LayoutCodes |-> NewKey(LayoutEntry(c), hues[c])]

\* Key.createLegend, as called by the Key constructors of a keyboard built
\* when `base` legend textures exist: only for a label
createLegendsFrom(base) ==
  [c \in LayoutCodes |->
    LET e == LayoutEntry(c)
    IN IF e.label # ""
       THEN [label |-> e.label, hasMesh |-> TRUE,
             map |-> base + LegendCount(LayoutIndex(c))]
       ELSE [label |-> e.label, hasMesh |-> FALSE, map |-> 0]]

\* the legends of the first keyboard
createLegends == createLegendsFrom(0)

\* the keycap geometry of each key of the first keyboard
createGeometries == InitialGeometries.geometry

\* the meshes the Keyboard constructor adds to its group before the keys
\* (createCaseBase, createWedgeSidePanels, createFrontBackWalls, createPlate),
\* each with its geometry and its material or array of materials, one per face
CaseMeshes ==
  << [name |-> "base", geometry |-> "baseGeometry",
      material |-> << "baseMaterial", "baseMaterial", "baseMaterial",
                      "baseMaterial", "ribbedMaterial", "ribbedMaterial" >>],
     [name |-> "leftPanel",  geometry |-> "leftGeometry",
      material |-> << "sideMaterial" >>],
     [name |-> "rightPanel", geometry |-> "rightGeometry",
      material |-> << "sideMaterial" >>],
     [name |-> "frontWall",  geometry |-> "frontWallGeometry",
      material |-> << "wallMaterial" >>],
     [name |-> "backWall",   geometry |-> "backWallGeometry",
      material |-> << "wallMaterial" >>],
     [name |-> "plate",      geometry |-> "plateGeometry",
      material |-> << "plateMaterial" >>] >>

\* the material slots of the case meshes: << mesh, index in its material >>
CaseFaces ==
  UNION {{<< i, j >> : j \in DOMAIN CaseMeshes[i].material} : i \in DOMAIN CaseMeshes}

\* the map and bumpMap textures of a case material: only the ribbed material
\* has one, the bumpMap createRibbedTexture() made
CaseMaterialTextures(mat) ==
  IF mat = "ribbedMaterial" THEN {"ribbedTexture"} ELSE {}

\* the geometries, materials and textures reachable from a keyboard with the
\* legends lg and the keycap geometries geo: per key the keycap, the legend (if
\* the key has one) and the underglow plane, then the case
KeyboardResources(lg, geo) ==
  {<< "keycapGeometry", geo[c] >> : c \in DOMAIN geo}
  \cup {<< kind, c >> : kind \in {"keycapMaterial", "glowGeometry", "glowMaterial"},
                        c \in DOMAIN geo}
  \cup {<< kind, c >> : kind \in {"legendGeometry", "legendMaterial"},
                        c \in {d \in DOMAIN lg : lg[d].hasMesh}}
  \cup {<< "legendTexture", lg[c].map >> : c \in {d \in DOMAIN lg : lg[d].hasMesh}}
  \cup {<< "case", CaseMeshes[i].geometry >> : i \in DOMAIN CaseMeshes}
  \cup {<< "case", CaseMeshes[f[1]].material[f[2]] >> : f \in CaseFaces}
  \cup UNION {{<< "case", t >> :
                  t \in CaseMaterialTextures(CaseMeshes[f[1]].material[f[2]])} :
                f \in CaseFaces}

\* pressKey without `if (key)`: key.press() on undefined throws
pressKeyUnguarded(ks, code) ==
  IF code \in DOMAIN ks
  THEN [keys |-> [ks EXCEPT ![code] = press(ks[code])], threw |-> FALSE]
  ELSE [keys |-> ks, threw |-> TRUE]

\* Keyboard.pressKey(code)
pressKey(ks, code) ==
  IF code \in DOMAIN ks
  THEN [keys |-> [ks EXCEPT ![code] = press(ks[code])], threw |-> FALSE]
  ELSE [keys |-> ks, threw |-> FALSE]

\* Keyboard.releaseKey(code)
releaseKey(ks, code) ==
  IF code \in DOMAIN ks
  THEN [keys |-> [ks EXCEPT ![code] = release(ks[code])], threw |-> FALSE]
  ELSE [keys |-> ks, threw |-> FALSE]

\* an update in which every key advances the phase accumulators of one key
updateKeysSharedPhase(ks, dt, settings) ==
  [c \in DOMAIN ks |->
     update([ks[c] EXCEPT !.hue = ks["KeyA"].hue, !.pulseTime = ks["KeyA"].pulseTime],
            dt, settings)]

\* Keyboard.update(deltaTime)
updateKeys(ks, dt, settings) == [c \in DOMAIN ks |-> update(ks[c], dt, settings)]

\* updateLabel that installs the new texture and forgets the old one
updateLabelLeaky(st, code, newLabel) ==
  LET lg == st.legends[code]
  IN IF ~lg.hasMesh THEN st
     ELSE [legends  |-> [st.legends EXCEPT ![code] =
                           [label |-> newLabel, hasMesh |-> TRUE, map |-> st.count + 1]],
           count    |-> st.count + 1,
           disposed |-> st.disposed]

\* Key.updateLabel(newLabel) on the legend store st = [legends, count, disposed]
updateLabel(st, code, newLabel) ==
  LET lg == st.legends[code]
  IN IF ~lg.hasMesh THEN st
     ELSE LET newTexture == st.count + 1
          IN [legends  |-> [st.legends EXCEPT ![code] =
                              [label |-> newLabel, hasMesh |-> TRUE, map |-> newTexture]],
              count    |-> newTexture,
              disposed |-> IF lg.map # 0 THEN st.disposed \cup {lg.map}
                           ELSE st.disposed]

\* a list of keys to relabel that names an alphanumeric key as well
keysToUpdateWithAlpha == << "MetaLeft", "MetaRight", "AltLeft", "AltRight", "KeyA" >>

\* Keyboard.updateKeyLabels: const keysToUpdate = [...]
keysToUpdate == << "MetaLeft", "MetaRight", "AltLeft", "AltRight" >>

\* Keyboard.updateKeyLabels(), the forEach from its i-th element on
RECURSIVE updateKeyLabels(_, _, _)
updateKeyLabels(st, layout, i) ==
  IF i > Len(keysToUpdate) THEN st
  ELSE LET code == keysToUpdate[i]
       IN IF code \in LayoutCodes
          THEN updateKeyLabels(
                 updateLabel(st, code,
                             getKeycapLabel(layout, code, LayoutEntry(code).label)),
                 layout, i + 1)
          ELSE updateKeyLabels(st, layout, i + 1)

----------------------------------------------------------------------------
(* InputHandler.js: the handlers registered on the window *)

AllReleased(ks) == \A c \in DOMAIN ks : ~ks[c].isPressed

\* releaseAllKeys that clears the set and forgets the keys
releaseAllKeysClearOnly(ks, held) == [keys |-> ks, pressedKeys |-> {}]

\* InputHandler.releaseAllKeys(): releaseKey for each held code, then clear()
releaseAllKeys(ks, held) ==
  [keys        |-> [c \in DOMAIN ks |-> IF c \in held THEN release(ks[c]) ELSE ks[c]],
   pressedKeys |-> {}]

\* InputHandler.showKeyIndicator(key, code): the indicator is made visible
\* and the timer that hides it is set anew
showKeyIndicator ==
  /\ indicatorVisible' = TRUE
  /\ indicatorTimeout' = TRUE

\* onKeyDown without `if (this.pressedKeys.has(code)) return`
KeyDownRepeats(code) ==
  /\ handlerAttached
  /\ LET r == pressKey(keys, code)
     IN /\ pressedKeys' = pressedKeys \cup {code}
        /\ keys' = r.keys
        /\ threw' = (threw \/ r.threw)
        /\ pressCalls' = [c \in pressedKeys \cup {code} |->
                            IF c # code THEN pressCalls[c]
                            ELSE IF c \in pressedKeys THEN pressCalls[c] + 1 ELSE 1]
        /\ showKeyIndicator
  /\ lastInput' = IF code \in pressedKeys THEN "repeat" ELSE "keydown"
  /\ frames' = frames
  /\ UNCHANGED << legendVars, settingVars, clockRunning, assemblyVars, build >>

\* InputHandler.onKeyDown(event) with event.code = code
KeyDown(code) ==
  /\ handlerAttached
  /\ IF code \in pressedKeys
     THEN UNCHANGED << keys, pressedKeys, threw, pressCalls, indicatorVars >>
     ELSE LET r == pressKey(keys, code)
          IN /\ pressedKeys' = pressedKeys \cup {code}
             /\ keys' = r.keys
             /\ threw' = (threw \/ r.threw)
             /\ pressCalls' = [c \in pressedKeys \cup {code} |->
                                 IF c = code THEN 1 ELSE pressCalls[c]]
             /\ showKeyIndicator
  /\ lastInput' = IF code \in pressedKeys THEN "repeat" ELSE "keydown"
  /\ frames' = frames
  /\ UNCHANGED << legendVars, settingVars, clockRunning, assemblyVars, build >>

\* InputHandler.onKeyUp(event) with event.code = code
KeyUp(code) ==
  /\ handlerAttached
  /\ LET r == releaseKey(keys, code)
     IN /\ pressedKeys' = pressedKeys \ {code}
        /\ keys' = r.keys
        /\ threw' = (threw \/ r.threw)
        /\ pressCalls' = [c \in pressedKeys \ {code} |-> pressCalls[c]]
  /\ lastInput' = "keyup"
  /\ frames' = frames
  /\ UNCHANGED << legendVars, settingVars, clockRunning, assemblyVars, indicatorVars, build >>

\* the timer set by showKeyIndicator fires, 800 ms after it was set:
\* indicator.classList.remove('visible')
IndicatorTimeout ==
  /\ indicatorTimeout
  /\ indicatorVisible' = FALSE
  /\ indicatorTimeout' = FALSE
  /\ lastInput' = lastInput
  /\ frames' = frames
  /\ UNCHANGED << keyVars, legendVars, settingVars, clockRunning, threw, assemblyVars,
                  build >>

\* the window's blur event: InputHandler.releaseAllKeys()
Blur ==
  /\ handlerAttached
  /\ LET r == releaseAllKeys(keys, pressedKeys)
     IN /\ keys' = r.keys
        /\ pressedKeys' = r.pressedKeys
        /\ pressCalls' = [c \in r.pressedKeys |-> pressCalls[c]]
  /\ lastInput' = "blur"
  /\ frames' = frames
  /\ UNCHANGED << legendVars, settingVars, clockRunning, threw, assemblyVars, indicatorVars, build >>

----------------------------------------------------------------------------
(* main.js: the frame loop and the settings panel *)

\* ticks the cycle hue of key k has advanced since the earliest start hue
HueTicks(k) == (k.hue - HueStart) % 600

\* the model follows a frame only while every key stays within its bounds
WithinBounds(ks) ==
  \A c \in DOMAIN ks :
    /\ Abs(ks[c].posY - ks[c].originalY) <= MaxOffset
    /\ ks[c].pulseTime <= MaxLightTicks
    /\ ks[c].geminiTime <= 8 * MaxLightTicks
    /\ HueTicks(ks[c]) <= MaxLightTicks + 1

\* App.animate(): deltaTime = clock.getDelta(), which is 0 on the call that
\* starts the clock; then keyboard.update(deltaTime).  dts are the frame
\* times of a running clock; a budget > 0 counts the frames and is the
\* number of frames the model follows
Animate(dts, budget) ==
  \E dt \in (IF clockRunning THEN dts ELSE {0}) :
    LET ks == updateKeys(keys, dt, getLightingSettings)
    IN /\ WithinBounds(ks)
       /\ budget > 0 => frames < budget
       /\ keys' = ks
       /\ clockRunning' = TRUE
       /\ lastInput' = lastInput
       /\ frames' = IF budget > 0 THEN frames + 1 ELSE frames
       /\ UNCHANGED << legendVars, settingVars, pressedKeys, pressCalls, threw,
                       assemblyVars, indicatorVars, build >>

\* setLightingEnabled(enabled)
SetLightingEnabled(enabled) ==
  /\ lightingSettings' = [lightingSettings EXCEPT !.enabled = enabled]
  /\ lastInput' = lastInput
  /\ frames' = frames
  /\ UNCHANGED << keyVars, legendVars, currentLayout, clockRunning, threw, assemblyVars, indicatorVars, build >>

\* setLightingBrightness(brightness)
SetLightingBrightness(brightness) ==
  /\ lightingSettings' = [lightingSettings EXCEPT !.brightness = ClampBrightness(brightness)]
  /\ lastInput' = lastInput
  /\ frames' = frames
  /\ UNCHANGED << keyVars, legendVars, currentLayout, clockRunning, threw, assemblyVars, indicatorVars, build >>

\* setLightingColor(color)
SetLightingColor(color) ==
  /\ lightingSettings' = [lightingSettings EXCEPT !.color = color]
  /\ lastInput' = lastInput
  /\ frames' = frames
  /\ UNCHANGED << keyVars, legendVars, currentLayout, clockRunning, threw, assemblyVars, indicatorVars, build >>

\* setLightingEffect(effect)
SetLightingEffect(effect) ==
  /\ lightingSettings' = [lightingSettings EXCEPT !.effect = effect]
  /\ lastInput' = lastInput
  /\ frames' = frames
  /\ UNCHANGED << keyVars, legendVars, currentLayout, clockRunning, threw, assemblyVars, indicatorVars, build >>

\* the OS-layout selector's change handler:
\* setLayout(e.target.value); this.keyboard.updateKeyLabels()
ChangeLayout(layout) ==
  LET st == updateKeyLabels([legends |-> legends, count |-> textureCount,
                             disposed |-> disposed], layout, 1)
  IN /\ st.count <= MaxTextures
     /\ currentLayout' = layout
     /\ legends' = st.legends
     /\ textureCount' = st.count
     /\ disposed' = st.disposed
     /\ lastInput' = lastInput
     /\ frames' = frames
     /\ UNCHANGED << keyVars, geometry, lightingSettings, clockRunning, threw, assemblyVars, indicatorVars, build >>

\* the keyboard, its input handler, the scene and the cache as one record
AssemblyState ==
  [keys |-> keys, legends |-> legends, geometry |-> geometry,
   textureCount |-> textureCount, disposed |-> disposed,
   pressedKeys |-> pressedKeys, cache |-> geometryCache, count |-> geometryCount,
   disposals |-> geometryDisposals, inScene |-> inScene,
   handlerAttached |-> handlerAttached, keyboardDisposed |-> keyboardDisposed,
   log |-> << >>, threw |-> threw, failed |-> FALSE, calls |-> {},
   keyboardId |-> keyboardId, nextId |-> rebuilds + 1, listeners |-> listeners,
   indicatorTimeout |-> indicatorTimeout]

\* rebuildKeyboard, this.keyboard.keys.forEach: the dispose() calls on the
\* keycap mesh and the legend mesh of each key
keyDisposeCalls(lg, geo) ==
  {[target |-> << "keycapGeometry", geo[c] >>, at |-> << "key", c, 0 >>] :
     c \in DOMAIN geo}
  \cup {[target |-> << "keycapMaterial", c >>, at |-> << "key", c, 0 >>] :
          c \in DOMAIN geo}
  \cup {[target |-> << kind, c >>, at |-> << "key", c, 0 >>] :
          kind \in {"legendGeometry", "legendMaterial"},
          c \in {d \in DOMAIN lg : lg[d].hasMesh}}
  \cup {[target |-> << "legendTexture", lg[c].map >>, at |-> << "key", c, 0 >>] :
          c \in {d \in DOMAIN lg : lg[d].hasMesh /\ lg[d].map # 0}}

\* rebuildKeyboard, keyboardGroup.traverse: the dispose() calls on every mesh
\* that is no keycap and no legend, i.e. the underglow plane of each key and
\* the case meshes; for an array of materials each element, with its map and
\* bumpMap, gets a call
traverseDisposeCalls(geo) ==
  {[target |-> << kind, c >>, at |-> << "glow", c, 0 >>] :
     kind \in {"glowGeometry", "glowMaterial"}, c \in DOMAIN geo}
  \cup {[target |-> << "case", CaseMeshes[i].geometry >>,
         at |-> << "mesh", CaseMeshes[i].name, 0 >>] : i \in DOMAIN CaseMeshes}
  \cup {[target |-> << "case", CaseMeshes[f[1]].material[f[2]] >>,
          at |-> << "mesh", CaseMeshes[f[1]].name, f[2] >>] : f \in CaseFaces}
  \cup UNION {{[target |-> << "case", t >>,
                 at |-> << "mesh", CaseMeshes[f[1]].name, f[2] >>] :
                  t \in CaseMaterialTextures(CaseMeshes[f[1]].material[f[2]])} :
                f \in CaseFaces}

\* rebuildKeyboard, `if (this.keyboard) { ... }`: the group leaves the scene,
\* each key's keycap geometry and legend texture are disposed, then the case
disposeKeyboard(st) ==
  [st EXCEPT
     !.calls = keyDisposeCalls(st.legends, st.geometry)
                 \cup traverseDisposeCalls(st.geometry),
     !.inScene = FALSE,
     !.disposals = @ \cup {[id |-> st.geometry[c], by |-> "key"] : c \in DOMAIN st.keys},
     !.disposed = @ \cup {st.legends[c].map :
                            c \in {d \in DOMAIN st.legends : st.legends[d].hasMesh}},
     !.keyboardDisposed = TRUE,
     !.log = Append(@, "dispose")]

\* rebuildKeyboard: this.inputHandler.destroy() removes the listeners and
\* clears the pending indicator timer
destroyInputHandler(st) ==
  [st EXCEPT !.handlerAttached = FALSE,
             !.listeners = @ \ {st.keyboardId},
             !.indicatorTimeout = FALSE,
             !.log = Append(@, "destroy")]

\* rebuildKeyboard: clearKeyCaches()
clearCaches(st) ==
  LET r == clearKeyCaches(st.cache, st.disposals)
  IN [st EXCEPT !.cache = r.cache, !.disposals = r.disposals,
                !.log = Append(@, "clear")]

\* rebuildKeyboard: this.keyboard = new Keyboard(); the constructor of the
\* layout entry `fail` throws in createLegend, after its geometry was built
constructKeyboard(st, fail, hues) ==
  LET n == IF fail = 0 THEN Len(KEYBOARD_LAYOUT) ELSE fail
      g == buildGeometries([cache |-> st.cache, count |-> st.count,
                            geometry |-> EmptyCache], n)
  IN IF fail = 0
     THEN [st EXCEPT !.keys = createKeys(hues),
                     !.legends = createLegendsFrom(st.textureCount),
                     !.geometry = g.geometry,
                     !.textureCount = @ + LegendCount(Len(KEYBOARD_LAYOUT)),
                     !.cache = g.cache,
                     !.count = g.count,
                     !.keyboardDisposed = FALSE,
                     !.keyboardId = st.nextId,
                     !.log = Append(@, "construct")]
     ELSE [st EXCEPT !.textureCount = @ + LegendCount(fail - 1),
                     !.cache = g.cache,
                     !.count = g.count,
                     !.threw = TRUE,
                     !.failed = TRUE,
                     !.log = Append(@, "construct")]

\* rebuildKeyboard: scene.add(...); this.inputHandler = new InputHandler(...);
\* not reached when the constructor threw
attachKeyboard(st) ==
  IF st.failed THEN st
  ELSE [st EXCEPT !.inScene = TRUE, !.handlerAttached = TRUE,
                  !.listeners = @ \cup {st.keyboardId},
                  !.pressedKeys = {}, !.log = Append(@, "attach")]

\* a rebuild that builds the new keyboard before it clears the caches
rebuildKeyboardBuildFirst(st, fail, hues) ==
  attachKeyboard(
    clearCaches(
      constructKeyboard(destroyInputHandler(disposeKeyboard(st)), fail, hues)))

\* App.rebuildKeyboard()
rebuildKeyboard(st, fail, hues) ==
  attachKeyboard(
    constructKeyboard(
      clearCaches(destroyInputHandler(disposeKeyboard(st))), fail, hues))

\* the theme selector's change handler:
\* setTheme(e.target.value); this.rebuildKeyboard()
ChangeTheme(themeName, fail) ==
  LET st == rebuildKeyboard(AssemblyState, fail, [c \in LayoutCodes |-> HueStart])
  IN /\ rebuilds < MaxRebuilds
     /\ currentTheme' = setTheme(currentTheme, themeName, Themes)
     /\ keys' = st.keys
     /\ legends' = st.legends
     /\ geometry' = st.geometry
     /\ textureCount' = st.textureCount
     /\ disposed' = st.disposed
     /\ pressedKeys' = st.pressedKeys
     /\ geometryCache' = st.cache
     /\ geometryCount' = st.count
     /\ geometryDisposals' = st.disposals
     /\ inScene' = st.inScene
     /\ handlerAttached' = st.handlerAttached
     /\ keyboardDisposed' = st.keyboardDisposed
     /\ rebuildLog' = st.log
     /\ disposeCalls' = st.calls
     /\ keyboardId' = st.keyboardId
     /\ listeners' = st.listeners
     /\ pressCalls' = [c \in st.pressedKeys |-> pressCalls[c]]
     /\ indicatorTimeout' = st.indicatorTimeout
     /\ indicatorVisible' = indicatorVisible
     /\ threw' = st.threw
     /\ rebuilds' = rebuilds + 1
     /\ lastInput' = lastInput
     /\ frames' = frames
     /\ UNCHANGED << lightingSettings, currentLayout, clockRunning, build >>

----------------------------------------------------------------------------
(* Specifications *)

\* widths and depths near zero that the geometry builder is tried on
DegenerateSizes == {200, 40}

\* calls of createRealisticKeycapGeometry: each Key constructor's own call,
\* and calls with a width or a depth near zero
BuilderInputs ==
  {[this |-> c, width |-> keyWidth(LayoutEntry(c)), depth |-> keyDepth] :
     c \in LayoutCodes}
  \cup {[this |-> c, width |-> w, depth |-> keyDepth] :
          c \in {"KeyA", "Space"}, w \in DegenerateSizes}
  \cup {[this |-> "KeyA", width |-> keyWidth(LayoutEntry("KeyA")), depth |-> d] :
          d \in DegenerateSizes}

\* no geometry is being built
NoBuild ==
  [this |-> "none", width |-> 0, depth |-> 0, row |-> 0, topY |-> 0, i |-> 0,
   vin |-> [x |-> 0, y |-> 0, z |-> 0, level |-> 0],
   vout |-> [x |-> 0, y |-> 0, z |-> 0],
   topX |-> 0, topZ |-> 0, bottomX |-> 0, bottomZ |-> 0]

\* createRealisticKeycapGeometry: one pass of `for (let i = 0; i <
\* position.count; i++)`, which displaces vertex i; the extents of the bottom
\* and the top cross-section are kept along
BuildVertex ==
  /\ build.this # "none"
  /\ build.i < VertexCount
  /\ LET v   == BoxVertex(build.width, baseHeight, build.depth, build.i)
         out == displaceVertex(keys[build.this], build.width, build.depth,
                               baseHeight, taperOffset, v)
     IN build' = [build EXCEPT
                    !.i = @ + 1,
                    !.vin = v,
                    !.vout = out,
                    !.topX = IF v.level = segments THEN Max(@, Abs(out.x)) ELSE @,
                    !.topZ = IF v.level = segments THEN Max(@, Abs(out.z)) ELSE @,
                    !.bottomX = IF v.level = 0 THEN Max(@, Abs(out.x)) ELSE @,
                    !.bottomZ = IF v.level = 0 THEN Max(@, Abs(out.z)) ELSE @]
  /\ lastInput' = lastInput
  /\ frames' = frames
  /\ UNCHANGED << keyVars, legendVars, settingVars, clockRunning, threw, assemblyVars,
                  indicatorVars >>

\* calls of the sculpted builder: each Key constructor's own call, and the
\* one-unit key in each row of the profile table
SculptedInputs ==
  {[this |-> c, row |-> row(LayoutEntry(c))] : c \in LayoutCodes}
  \cup {[this |-> "KeyA", row |-> r] : r \in ProfileRows}

\* the sculpted createRealisticKeycapGeometry: one pass of its vertex loop;
\* the greatest height reached is kept along
SculptVertex ==
  /\ build.this # "none"
  /\ build.i < SculptedVertexCount
  /\ LET v   == SculptedBoxVertex(build.width, baseHeight, build.depth, build.i)
         out == sculptVertex(keys[build.this], build.width, build.depth,
                             baseHeight, sculptedTaperOffset, build.row, v)
     IN build' = [build EXCEPT !.i = @ + 1, !.vin = v, !.vout = out,
                               !.topY = Max(@, out.y)]
  /\ lastInput' = lastInput
  /\ frames' = frames
  /\ UNCHANGED << keyVars, legendVars, settingVars, clockRunning, threw, assemblyVars,
                  indicatorVars >>

\* what App.bootstrap() and initKeyboard() set up besides the keys
InitAssembly ==
  /\ legends = createLegends
  /\ geometry = createGeometries
  /\ textureCount = LegendCount(Len(KEYBOARD_LAYOUT))
  /\ disposed = {}
  /\ pressedKeys = {}
  /\ lightingSettings = InitialLightingSettings
  /\ currentLayout = "macos"
  /\ clockRunning = FALSE
  /\ threw = FALSE
  /\ lastInput = "init"
  /\ frames = 0
  /\ geometryCache = InitialGeometries.cache
  /\ geometryCount = InitialGeometries.count
  /\ geometryDisposals = {}
  /\ inScene = TRUE
  /\ handlerAttached = TRUE
  /\ keyboardDisposed = FALSE
  /\ rebuildLog = << >>
  /\ rebuilds = 0
  /\ currentTheme = "default"
  /\ disposeCalls = {}
  /\ keyboardId = 0
  /\ listeners = {0}
  /\ pressCalls = [c \in {} |-> 0]
  /\ indicatorVisible = FALSE
  /\ indicatorTimeout = FALSE

\* the state after App.bootstrap() has run initKeyboard()
InitKeyboard(hues) == keys = createKeys(hues) /\ InitAssembly

InitWith(hues) == InitKeyboard(hues) /\ build = NoBuild

Init == InitWith([c \in LayoutCodes |-> HueStart])

\* key events, focus loss and frames, under the default (disabled) lighting
Next ==
  \/ \E code \in EventCodes : KeyDown(code)
  \/ \E code \in EventCodes : KeyUp(code)
  \/ Blur
  \/ Animate(FrameDts, 0)

Spec == Init /\ [][Next]_vars

\* the lighting model: Math.random() gives each key its own start hue; the
\* colour and the effect are picked while the renderer warms up, before the
\* first frame, the switch and the brightness slider are used at any time
InitLight ==
  \E h \in {HueStart, HueStart + 1} :
    InitWith([c \in LayoutCodes |-> IF c = "KeyA" THEN h ELSE HueStart])

NextLight ==
  \/ KeyDown("KeyA")
  \/ KeyUp("KeyA")
  \/ Blur
  \/ Animate(LightDts, MaxLightFrames)
  \/ \E e \in BOOLEAN : SetLightingEnabled(e)
  \/ \E b \in BrightnessInputs : SetLightingBrightness(b)
  \/ ~clockRunning /\ \E col \in ColorInputs : SetLightingColor(col)
  \/ ~clockRunning /\ \E e \in EffectInputs : SetLightingEffect(e)

SpecLight == InitLight /\ [][NextLight]_vars

\* one key animated at 60, 30 and 15 frames per second
NextSlow ==
  \/ KeyDown("KeyA")
  \/ KeyUp("KeyA")
  \/ Blur
  \/ Animate(SlowDts, 0)

SpecSlow == Init /\ [][NextSlow]_vars

\* relabelling on OS-layout changes, with key events and 30 fps frames
NextLabels ==
  \/ \E l \in Layouts : ChangeLayout(l)
  \/ KeyDown("MetaLeft")
  \/ KeyUp("MetaLeft")
  \/ Blur
  \/ Animate({2}, 0)

SpecLabels == Init /\ [][NextLabels]_vars

\* theme changes that rebuild the keyboard, with layout changes, key events
\* and 30 fps frames
NextRebuild ==
  \/ \E t \in ThemeInputs, f \in FailPoints : ChangeTheme(t, f)
  \/ \E l \in Layouts : ChangeLayout(l)
  \/ KeyDown("KeyA")
  \/ KeyUp("KeyA")
  \/ Blur
  \/ Animate({2}, 0)

SpecRebuild == Init /\ [][NextRebuild]_vars

\* the geometry builder, vertex by vertex, on each of its calls; Math.random()
\* has given the keys different start hues
InitGeometry ==
  \E call \in BuilderInputs :
    /\ InitKeyboard([c \in LayoutCodes |-> HueStart + (LayoutIndex(c) % 2)])
    /\ build = [NoBuild EXCEPT !.this = call.this, !.width = call.width,
                               !.depth = call.depth]

NextGeometry == BuildVertex

SpecGeometry == InitGeometry /\ [][NextGeometry]_vars

\* keyboards built from a layout whose A key and spacebar carry any color
\* tag, with key events and 30 fps frames
InitPalette ==
  \E roleA, roleSpace \in ColorRoleInputs :
    /\ keys = [c \in LayoutCodes |->
                 NewKey([LayoutEntry(c) EXCEPT
                           !.color = IF c = "KeyA" THEN roleA
                                     ELSE IF c = "Space" THEN roleSpace ELSE @],
                        HueStart)]
    /\ InitAssembly
    /\ build = NoBuild

NextPalette ==
  \/ KeyDown("KeyA")
  \/ KeyUp("KeyA")
  \/ Blur
  \/ Animate({2}, 0)

SpecPalette == InitPalette /\ [][NextPalette]_vars

\* the key indicator: key events, focus loss, theme changes that rebuild the
\* keyboard, 30 fps frames and the indicator's timer; a timer that is
\* pending fires
NextIndicator ==
  \/ KeyDown("KeyA")
  \/ KeyUp("KeyA")
  \/ Blur
  \/ \E t \in ThemeInputs, f \in FailPoints : ChangeTheme(t, f)
  \/ Animate({2}, 0)
  \/ IndicatorTimeout

SpecIndicator == Init /\ [][NextIndicator]_vars /\ WF_vars(IndicatorTimeout)

\* the sculpted geometry builder, vertex by vertex, on each of its calls
InitSculpted ==
  \E call \in SculptedInputs :
    /\ InitKeyboard([c \in LayoutCodes |-> HueStart])
    /\ build = [NoBuild EXCEPT !.this = call.this,
                               !.width = keyWidth(LayoutEntry(call.this)),
                               !.depth = keyDepth, !.row = call.row]

NextSculpted == SculptVertex

SpecSculpted == InitSculpted /\ [][NextSculpted]_vars

----------------------------------------------------------------------------
(* Properties *)

\* a frame of a running clock: App.animate() passing a deltaTime > 0
LitFrame(dts) == clockRunning /\ Animate(dts, 0)

\* the distance of key k from its target
Remaining(k) == Abs(k.targetY - k.posY)

\* C1: in every reachable state and for every key, press() called twice in a
\* row leaves the key as one press() does, and release() called twice in a
\* row leaves it as one release() does
C1_Idempotent ==
  \A c \in DOMAIN keys :
    /\ press(press(keys[c])) = press(keys[c])
    /\ release(release(keys[c])) = release(keys[c])

\* a key is held, lightened by its press, while another one is at rest
C1_Witness ==
  /\ keys["Space"].isPressed
  /\ keys["Space"].color # keys["Space"].originalColor
  /\ keys["Space"].opacity = PressGlowOpacity
  /\ ~keys["KeyA"].isPressed

\* C2 (as claimed): every update(dt) with dt > 0 strictly reduces the
\* distance |target - offset| of every key that is not at its target, and
\* leaves a key that is at its target there
C2_StrictlyCloser ==
  [][LitFrame(SlowDts) =>
       \A c \in DOMAIN keys :
         IF Remaining(keys[c]) = 0
         THEN Remaining(keys'[c]) = 0
         ELSE Remaining(keys'[c]) < Remaining(keys[c])]_vars

\* C4 (as claimed): from any released key state, press() followed by
\* release() gives back the state from before the press: isPressed, target
\* offset, keycap colour and underglow opacity
C4_PressReleaseRestores ==
  \A c \in DOMAIN keys :
    ~keys[c].isPressed => release(press(keys[c])) = keys[c]

\* C5: pressKey(code) and releaseKey(code) with a code that is not in the
\* layout throw nothing and leave every key as it was
C5_UnknownCodeNoOp ==
  \A code \in EventCodes \ LayoutCodes :
    /\ pressKey(keys, code) = [keys |-> keys, threw |-> FALSE]
    /\ releaseKey(keys, code) = [keys |-> keys, threw |-> FALSE]
    /\ ~threw

\* the unknown code went through onKeyDown while a key of the layout is held
C5_Witness ==
  /\ "F13" \in pressedKeys
  /\ lastInput = "keydown"
  /\ keys["KeyA"].isPressed
  /\ ~threw

\* C6: after releaseAllKeys() (the blur handler), whatever key-down and
\* key-up events came before, no key is pressed and pressedKeys is empty
C6_BlurReleasesAll ==
  lastInput = "blur" => (AllReleased(keys) /\ pressedKeys = {})

\* the blur came while two keys were down: both are on their way back up
C6_Witness ==
  /\ lastInput = "blur"
  /\ keys["KeyA"].posY < keys["KeyA"].originalY
  /\ keys["Space"].posY < keys["Space"].originalY
  /\ keys["KeyA"].targetY = keys["KeyA"].originalY
  /\ keys["Space"].targetY = keys["Space"].originalY

\* key k after n calls of Keyboard.update(1/60 s), which calls k.update
RECURSIVE Settle(_, _)
Settle(k, n) ==
  IF n = 0 THEN k
  ELSE LET next == update(k, 1, getLightingSettings)
       IN IF next = k THEN k ELSE Settle(next, n - 1)

\* C7: once no key is pressed, 60 calls of Keyboard.update(1/60 s) bring
\* the offset of every key exactly to its released target originalY,
\* whatever offset the key had
C7_SettlesIn60Frames ==
  AllReleased(keys) =>
    \A c \in DOMAIN keys : Settle(keys[c], 60).posY = keys[c].originalY

\* a key was released at its full pressed depth
C7_Witness ==
  /\ AllReleased(keys)
  /\ lastInput \in {"keyup", "blur"}
  /\ keys["KeyA"].posY = keys["KeyA"].originalY - PressDepth

\* a frame of the lighting model, and one of a running clock (deltaTime > 0)
LightFrame == Animate(LightDts, MaxLightFrames)

LitLightFrame == clockRunning /\ LightFrame

\* C3 (as claimed): whenever lighting is disabled, the underglow opacity of
\* every key is 0 after update(dt), for every effect, press state and dt the
\* frame loop passes
C3_DisabledMeansDark ==
  [][(LightFrame /\ ~lightingSettings.enabled) =>
       \A c \in DOMAIN keys : keys'[c].opacity = 0]_vars

\* C8 (as claimed): with lighting enabled and the effect stable, cycle or
\* pulse, update(dt) sets the opacity of every released key to
\* baseOpacity = 0.1 + 0.8 * brightness / 100
C8_ReleasedIsBaseOpacity ==
  [][(LitLightFrame /\ lightingSettings.enabled
        /\ lightingSettings.effect \in {"stable", "cycle", "pulse"}) =>
       \A c \in DOMAIN keys :
         ~keys'[c].isPressed =>
           keys'[c].opacity = 100000 + 8000 * lightingSettings.brightness]_vars

\* C8 (amended): with lighting enabled, update(dt) sets the opacity of every
\* released key to baseOpacity = 0.1 + 0.8 * brightness / 100 under stable
\* and cycle; under pulse it sets (0.2 + 0.6 * pulse) * brightness / 100 with
\* pulse in [0, 1], which lies below baseOpacity
C8_ReleasedOpacity ==
  [][(LitLightFrame /\ lightingSettings.enabled) =>
       \A c \in DOMAIN keys :
         ~keys'[c].isPressed =>
           LET b == lightingSettings.brightness
               o == keys'[c].opacity
           IN /\ lightingSettings.effect \in {"stable", "cycle"}
                   => o = 100000 + 8000 * b
              /\ lightingSettings.effect = "pulse"
                   => /\ 2000 * b <= o
                      /\ o <= 8000 * b
                      /\ o < 100000 + 8000 * b]_vars

\* frames under stable and under pulse have set a released key's opacity
C8_Witness ==
  /\ clockRunning
  /\ frames >= 2
  /\ lightingSettings.enabled
  /\ lightingSettings.effect = "pulse"
  /\ lightingSettings.brightness = 100
  /\ ~keys["KeyA"].isPressed
  /\ keys["KeyA"].pulseTime >= 2
  /\ keys["KeyA"].opacity > 200000
  /\ keys["KeyA"].opacity < 900000

\* C9 (as claimed): under the reactive effect with lighting enabled, an
\* update of a held key sets its opacity to 1.0 * brightness / 100; an update
\* of a released key multiplies its glow by 0.92 whatever dt is and never
\* raises its opacity
C9_ReactiveAsClaimed ==
  [][(LitLightFrame /\ lightingSettings.enabled
        /\ lightingSettings.effect = "reactive") =>
       \A c \in DOMAIN keys :
         IF keys'[c].isPressed
         THEN keys'[c].opacity = 10000 * lightingSettings.brightness
         ELSE /\ keys'[c].reactiveGlow = (keys[c].reactiveGlow * 92) \div 100
              /\ keys'[c].opacity <= keys[c].opacity]_vars

\* C9 (amended): under the reactive effect with lighting enabled, an update
\* of a held key sets its glow to 1.0 and its opacity to
\* 0.9 * brightness / 100; an update of a released key multiplies its glow by
\* 0.92 whatever dt is and sets the opacity to 0.9 * glow * brightness / 100,
\* so the glow never increases while released and the opacity is at most
\* what the glow before the update gives at the current brightness
C9_Reactive ==
  [][(LitLightFrame /\ lightingSettings.enabled
        /\ lightingSettings.effect = "reactive") =>
       \A c \in DOMAIN keys :
         LET b == lightingSettings.brightness
         IN IF keys'[c].isPressed
            THEN /\ keys'[c].reactiveGlow = 1000
                 /\ keys'[c].opacity = 9000 * b
            ELSE /\ keys'[c].reactiveGlow = (keys[c].reactiveGlow * 92) \div 100
                 /\ keys'[c].reactiveGlow <= keys[c].reactiveGlow
                 /\ keys'[c].opacity = 9 * keys'[c].reactiveGlow * b
                 /\ keys'[c].opacity <= 9 * keys[c].reactiveGlow * b]_vars

\* a key was held under the reactive effect and has decayed for two frames
C9_Witness ==
  /\ lightingSettings.enabled
  /\ lightingSettings.effect = "reactive"
  /\ lightingSettings.brightness = 50
  /\ ~keys["KeyA"].isPressed
  /\ keys["KeyA"].reactiveGlow = 846
  /\ keys["KeyA"].opacity = 9 * 846 * 50

\* the keys whose legends depend on the OS layout
LocaleKeys == {"MetaLeft", "MetaRight", "AltLeft", "AltRight"}

\* a relabel: the layout selector's handler has run
Relabel == \E l \in Layouts : ChangeLayout(l)

\* C10 (as claimed): a relabel that gives MetaLeft a new label changes only
\* MetaLeft's legend image; the keycap geometry references are unchanged and
\* the legend of every other key is left as it was
C10_OnlyTargetRelabelled ==
  [][(Relabel /\ legends'["MetaLeft"].label # legends["MetaLeft"].label) =>
       /\ geometry' = geometry
       /\ \A c \in DOMAIN legends \ {"MetaLeft"} : legends'[c] = legends[c]]_vars

\* C10 (amended): updateLabel on one key replaces only that key's legend
\* image; the relabel the layout selector runs applies it to the four
\* layout-dependent keys MetaLeft, MetaRight, AltLeft and AltRight, each
\* getting a new texture with its label under the selected layout; the keycap
\* geometry reference of every key is unchanged and the legend of every other
\* key is left as it was
C10_OnlyLocaleKeysRelabelled ==
  [][Relabel =>
       /\ \A c \in DOMAIN legends :
            LET st == updateLabel([legends |-> legends, count |-> textureCount,
                                   disposed |-> disposed], c, "win")
            IN \A d \in DOMAIN legends \ {c} : st.legends[d] = legends[d]
       /\ geometry' = geometry
       /\ \A c \in DOMAIN legends \ LocaleKeys : legends'[c] = legends[c]
       /\ \A c \in DOMAIN legends \cap LocaleKeys :
            /\ legends'[c].map > textureCount
            /\ legends'[c].map # legends[c].map
            /\ legends'[c].label =
                 getKeycapLabel(currentLayout', c, LayoutEntry(c).label)]_vars

\* the layout was switched to windows: MetaLeft carries the windows glyph on
\* a new texture, the alphanumeric key still has its first texture
C10_Witness ==
  /\ currentLayout = "windows"
  /\ legends["MetaLeft"].label = "win"
  /\ legends["MetaLeft"].map > 5
  /\ legends["AltLeft"].label = "Alt"
  /\ legends["KeyA"] = [label |-> "A", hasMesh |-> TRUE, map |-> 1]
  /\ geometry = createGeometries

\* the legend textures allocated so far that were not disposed
LiveTextures == (1 .. textureCount) \ disposed

\* C11: a relabel disposes the legend texture a key had before it installs
\* the new one, so after any number of relabels every key with a legend holds
\* exactly one undisposed texture of its own and every earlier texture is
\* disposed
C11_OneLiveTexturePerKey ==
  /\ \A c \in DOMAIN legends :
       legends[c].hasMesh => legends[c].map \in LiveTextures
  /\ \A t \in LiveTextures :
       Cardinality({c \in DOMAIN legends : legends[c].map = t}) = 1

\* the four layout-dependent keys were relabelled twice
C11_Witness ==
  /\ textureCount = LegendCount(Len(KEYBOARD_LAYOUT)) + 8
  /\ Cardinality(disposed) = 8
  /\ currentLayout = "macos"
  /\ legends["MetaLeft"].map \notin disposed

\* a call of rebuildKeyboard, and one that ran to its end
RebuildStep == rebuilds' = rebuilds + 1

RebuildDone == RebuildStep /\ rebuildLog'[Len(rebuildLog')] = "attach"

\* ids of the keycap geometries on which dispose() was called
DisposedGeometries == {d.id : d \in geometryDisposals}

\* the six shape parameters agree
SameShape(e1, e2) ==
  /\ e1.width = e2.width
  /\ row(e1) = row(e2)
  /\ (e1.code = "Space") = (e2.code = "Space")

\* every two keys of the keyboard with the same shape parameters hold the
\* same geometry object
SharedByShape(geo) ==
  \A c1, c2 \in DOMAIN geo :
    SameShape(LayoutEntry(c1), LayoutEntry(c2)) => geo[c1] = geo[c2]

C14_TeardownBeforeConstruction ==
  [][RebuildStep =>
       /\ \A i \in 1 .. Len(rebuildLog') :
            rebuildLog'[i] = "construct" =>
              {rebuildLog'[j] : j \in 1 .. (i - 1)} = {"dispose", "destroy", "clear"}
       /\ \A c \in DOMAIN geometry : geometry[c] \in {d.id : d \in geometryDisposals'}
       /\ \A c \in DOMAIN legends : legends[c].hasMesh => legends[c].map \in disposed'
       /\ \A sig \in DOMAIN geometryCache : geometryCache[sig] \in {d.id : d \in geometryDisposals'}
       /\ RebuildDone =>
            /\ \A c \in DOMAIN geometry' :
                 /\ geometry'[c] > geometryCount
                 /\ geometry'[c] \notin {d.id : d \in geometryDisposals'}
            /\ \A c \in DOMAIN legends' :
                 legends'[c].hasMesh =>
                   /\ legends'[c].map > textureCount
                   /\ legends'[c].map \notin disposed'
            /\ keys' = createKeys([c \in LayoutCodes |-> HueStart])
            /\ clockRunning' = clockRunning]_vars

\* two rebuilds were called and the last one ran to its end
C14_Witness ==
  /\ rebuilds >= 2
  /\ rebuildLog = << "dispose", "destroy", "clear", "construct", "attach" >>
  /\ ~keyboardDisposed
  /\ inScene
  /\ handlerAttached
  /\ geometry["KeyA"] > InitialGeometries.count

\* C15 (as claimed): a rebuild whose construction fails leaves the previous
\* assembly intact: still in the scene, its resources undisposed, its input
\* handler attached
C15_FailedRebuildIsAtomic ==
  (rebuildLog # << >> /\ rebuildLog[Len(rebuildLog)] # "attach") =>
    /\ inScene
    /\ handlerAttached
    /\ ~keyboardDisposed
    /\ \A c \in DOMAIN geometry : geometry[c] \notin DisposedGeometries
    /\ \A c \in DOMAIN legends : legends[c].hasMesh => legends[c].map \notin disposed

\* C16: after construction and after any number of rebuilds the key map has
\* one Key per layout entry: its codes are the layout's codes and each Key
\* has the code, width and grid position of its entry
C16_OneKeyPerEntry ==
  /\ DOMAIN keys = {KEYBOARD_LAYOUT[i].code : i \in 1 .. Len(KEYBOARD_LAYOUT)}
  /\ Cardinality(DOMAIN keys) = Len(KEYBOARD_LAYOUT)
  /\ \A i \in 1 .. Len(KEYBOARD_LAYOUT) :
       LET e == KEYBOARD_LAYOUT[i]
           k == keys[e.code]
       IN /\ k.code = e.code
          /\ k.width = e.width
          /\ k.x = e.x
          /\ k.y = e.y

\* the keyboard was rebuilt twice, the second time after a key was held
C16_Witness ==
  /\ rebuilds >= 2
  /\ ~keyboardDisposed
  /\ handlerAttached
  /\ "KeyA" \in pressedKeys
  /\ keys["KeyA"].isPressed

\* the build is the one the Key constructor of its caller makes
LayoutBuild ==
  /\ build.width = keyWidth(LayoutEntry(build.this))
  /\ build.depth = keyDepth

\* C17: for the keycap of every layout entry the top cross-section is no
\* wider and no deeper than the bottom cross-section, and no vertex lies
\* farther from the centre than the box vertex it was made from
C17_TaperNeverWidens ==
  LayoutBuild =>
    /\ build.i > 0 => /\ Abs(build.vout.x) <= Abs(build.vin.x)
                      /\ Abs(build.vout.z) <= Abs(build.vin.z)
    /\ build.i = VertexCount => /\ build.topX <= build.bottomX
                                /\ build.topZ <= build.bottomZ

\* the spacebar's keycap is built: its top is narrower than its bottom by
\* the taper on either side
C17_Witness ==
  /\ build.this = "Space"
  /\ LayoutBuild
  /\ build.i = VertexCount
  /\ build.bottomX = RoundDiv(build.width, 2)
  /\ build.topX = RoundDiv(build.width, 2) - taperOffset
  /\ build.topZ = RoundDiv(build.depth, 2) - taperOffset

\* C18 (as claimed): for a width or depth near zero too, the taper scale of
\* every vertex stays positive and no vertex crosses to the opposite side of
\* the key centre
C18_NoInversion ==
  build.i > 0 =>
    LET currentTaper ==
          RoundDiv((build.vin.y + RoundDiv(baseHeight, 2)) * taperOffset, baseHeight)
    IN /\ RoundDiv(build.width, 2) - currentTaper > 0
       /\ RoundDiv(build.depth, 2) - currentTaper > 0
       /\ build.vout.x * build.vin.x >= 0
       /\ build.vout.z * build.vin.z >= 0

\* C19: the vertex the builder yields depends on its shape arguments and the
\* spacebar flag only: called with the same arguments on any other Key with
\* the same flag (another code, grid position, colour and start hue) it yields
\* the same position
C19_Deterministic ==
  build.i > 0 =>
    \A c \in DOMAIN keys :
      ((c = "Space") = (build.this = "Space")) =>
        displaceVertex(keys[c], build.width, build.depth, baseHeight,
                       taperOffset, build.vin) = build.vout

\* a scooped vertex of the top face of the A key was built, and another key
\* with another start hue exists
C19_Witness ==
  /\ build.this = "KeyA"
  /\ LayoutBuild
  /\ build.vin.level = segments
  /\ build.vin.x = 0
  /\ build.vout.y = baseHeight - scoopDepth
  /\ keys["MetaRight"].hue # keys["KeyA"].hue

\* the fields of a key that press() and release() leave alone
SamePhaseAndOffset(k1, k2) ==
  /\ k1.posY = k2.posY
  /\ k1.glowColor = k2.glowColor
  /\ k1.pulseTime = k2.pulseTime
  /\ k1.hue = k2.hue
  /\ k1.reactiveGlow = k2.reactiveGlow
  /\ k1.geminiTime = k2.geminiTime

\* the fields of a key that neither press(), release() nor update() changes
SameIdentity(k1, k2) ==
  /\ k1.code = k2.code
  /\ k1.width = k2.width
  /\ k1.x = k2.x
  /\ k1.y = k2.y
  /\ k1.originalY = k2.originalY
  /\ k1.originalColor = k2.originalColor

\* C20: pressKey(code) and releaseKey(code) change only the addressed key,
\* and of it only the press state, the target offset, the keycap colour and
\* the underglow opacity; update(dt) takes every key from its own state to
\* its next one, leaving its press state, target and keycap colour alone; none
\* of them changes the lighting settings or which keys exist
C20_OwnStateOnly ==
  [][/\ (KeyDown("KeyA") \/ KeyUp("KeyA")) =>
          /\ lightingSettings' = lightingSettings
          /\ \A c \in DOMAIN keys \ {"KeyA"} : keys'[c] = keys[c]
          /\ SamePhaseAndOffset(keys'["KeyA"], keys["KeyA"])
          /\ SameIdentity(keys'["KeyA"], keys["KeyA"])
     /\ LightFrame =>
          /\ lightingSettings' = lightingSettings
          /\ DOMAIN keys' = DOMAIN keys
          /\ \E dt \in {0} \cup LightDts :
               \A c \in DOMAIN keys : keys'[c] = update(keys[c], dt, lightingSettings)
          /\ \A c \in DOMAIN keys :
               /\ SameIdentity(keys'[c], keys[c])
               /\ keys'[c].isPressed = keys[c].isPressed
               /\ keys'[c].targetY = keys[c].targetY
               /\ keys'[c].color = keys[c].color]_vars

\* under the cycle effect a frame has advanced the hue of a held key and of
\* a released key that started at another hue
C20_Witness ==
  /\ lightingSettings.enabled
  /\ lightingSettings.effect = "cycle"
  /\ clockRunning
  /\ frames >= 2
  /\ keys["KeyA"].isPressed
  /\ keys["KeyA"].opacity = PressedOpacity
  /\ keys["KeyA"].hue # keys["Space"].hue
  /\ keys["Space"].hue # HueStart
  /\ ~keys["Space"].isPressed

\* C21 (as claimed): for every dt > 0 the frame loop passes, update(dt)
\* leaves the offset of every key between the offset it had and the target,
\* so the position of a key stays within the range from its pressed depth to
\* its rest position
C21_NeverOvershoots ==
  [][LitFrame(SlowDts) =>
       \A c \in DOMAIN keys :
         /\ Min(keys[c].posY, keys[c].targetY) <= keys'[c].posY
         /\ keys'[c].posY <= Max(keys[c].posY, keys[c].targetY)
         /\ keys'[c].originalY - PressDepth <= keys'[c].posY
         /\ keys'[c].posY <= keys'[c].originalY]_vars

\* dispose() calls the last rebuild made on the resource r
DisposeCount(calls, r) == Cardinality({call \in calls : call.target = r})

\* C22 (as claimed): in a rebuild every geometry, material and texture
\* reachable from the old keyboard (keycaps, legends, underglow planes, case
\* and plate meshes) gets exactly one dispose() call, the materials and
\* textures that several meshes or faces share included
C22_DisposedExactlyOnce ==
  [][RebuildStep =>
       \A r \in KeyboardResources(legends, geometry) :
         DisposeCount(disposeCalls', r) = 1]_vars

\* C23 (as claimed): with lighting enabled and the effect stable, pulse,
\* cycle or gemini, after update(dt) the underglow opacity of every pressed
\* key is the constant 0.95, whatever the brightness and the phase of the
\* effect are
C23_PressedIsNearMax ==
  [][(LightFrame /\ lightingSettings.enabled
        /\ lightingSettings.effect \in {"stable", "pulse", "cycle", "gemini"}) =>
       \A c \in DOMAIN keys :
         keys'[c].isPressed => keys'[c].opacity = PressedOpacity]_vars

\* C24: the row offset is scaled by the normalized height, so for every row
\* and every key the vertices of the bottom of the box end at height 0; a
\* finished keycap other than the spacebar is as tall as the base height plus
\* its row's offset, and the offsets of the five rows are distinct constants
\* that strictly decrease from the top row to the space-bar row
C24_RowProfileSeated ==
  /\ (build.i > 0 /\ build.vin.level = 0) => build.vout.y = 0
  /\ build.i > 0 => build.vout.y >= 0
  /\ (build.i = SculptedVertexCount /\ build.this # "Space") =>
       build.topY = baseHeight + rowHeightAdjust(build.row)
  /\ \A r1, r2 \in ProfileRows :
       r1 < r2 => rowHeightAdjust(r1) > rowHeightAdjust(r2)

\* the keycap of a one-unit key of the top row is finished: it is taller
\* than the base height, and its last vertex lies on the bottom
C24_Witness ==
  /\ build.this = "KeyA"
  /\ build.row = 1
  /\ build.i = SculptedVertexCount
  /\ build.topY = baseHeight + 60
  /\ build.vin.level = 0
  /\ build.vin.y = -(baseHeight \div 2)
  /\ build.vout.y = 0

\* C25: a key whose color tag is not a role of the palette is built with the
\* colour of the default role alphaKeys, a key whose tag is a role with that
\* role's colour; for every tag the constructor throws nothing and the key is
\* built
C25_AbsentRoleFallsBack ==
  /\ ~threw
  /\ DOMAIN keys = LayoutCodes
  /\ \A c \in DOMAIN keys :
       /\ keys[c].colorName \notin DOMAIN COLORS =>
            keys[c].originalColor = COLORS.alphaKeys
       /\ keys[c].colorName \in DOMAIN COLORS =>
            keys[c].originalColor = COLORS[keys[c].colorName]
       /\ ~keys[c].isPressed => keys[c].color = keys[c].originalColor

\* the A key carries a tag the palette lacks and the spacebar carries none:
\* both were built in the default colour, and the A key is held
C25_Witness ==
  /\ keys["KeyA"].colorName = "darkGrey"
  /\ keys["Space"].colorName = ""
  /\ keys["KeyA"].originalColor = COLORS.alphaKeys
  /\ keys["Space"].originalColor = COLORS.alphaKeys
  /\ keys["KeyA"].isPressed
  /\ keys["KeyA"].posY < keys["KeyA"].originalY

\* C26: after any sequence of key-down, key-up and blur events that one
\* InputHandler handles, a key of the keyboard is pressed exactly when its
\* code is in the handler's pressedKeys, and for every held code pressKey was
\* called once since the code went down, however often its key-down repeats
C26_PressedMatchesHeld ==
  /\ \A c \in DOMAIN keys : keys[c].isPressed <=> c \in pressedKeys
  /\ DOMAIN pressCalls = pressedKeys
  /\ \A code \in pressedKeys : pressCalls[code] = 1

\* the key-down of the held A key was repeated while the spacebar was down
\* too, after frames that brought the A key to its pressed depth
C26_Witness ==
  /\ lastInput = "repeat"
  /\ pressedKeys = {"KeyA", "Space"}
  /\ pressCalls["KeyA"] = 1
  /\ keys["KeyA"].isPressed
  /\ keys["KeyA"].posY = keys["KeyA"].originalY - PressDepth
  /\ keys["Space"].isPressed
  /\ ~keys["MetaLeft"].isPressed

\* C27 (as claimed): after any sequence of OS-layout changes and theme
\* rebuilds the legend of each of MetaLeft, MetaRight, AltLeft and AltRight
\* carries the label getKeycapLabel gives for its code under the layout that
\* is selected
C27_LabelsFollowLayout ==
  \A c \in LocaleKeys :
    legends[c].label = getKeycapLabel(currentLayout, c, LayoutEntry(c).label)

\* C28 (as claimed): at every moment, after any number of rebuilds, exactly
\* one InputHandler has its listeners on the window and it drives the
\* current keyboard, so a key-down event makes one pressKey call and none on
\* a discarded keyboard
C28_OneHandlerAttached ==
  /\ Cardinality(listeners) = 1
  /\ listeners = {keyboardId}
  /\ handlerAttached
  /\ \A code \in pressedKeys : pressCalls[code] = 1

\* C29: for every key the keyboard built, in every state that press, release
\* and update reach, the target offset is originalY - 0.003 exactly when the
\* key is pressed and originalY exactly when it is not
C29_TargetTracksPress ==
  \A c \in DOMAIN keys :
    /\ keys[c].originalY = keyBaseY
    /\ keys[c].targetY \in {keys[c].originalY, keys[c].originalY - PressDepth}
    /\ keys[c].isPressed <=> keys[c].targetY = keys[c].originalY - PressDepth
    /\ ~keys[c].isPressed <=> keys[c].targetY = keys[c].originalY

\* the A key is held and on its way down while the spacebar, released by a
\* key-up, is on its way back up
C29_Witness ==
  /\ keys["KeyA"].isPressed
  /\ keys["KeyA"].targetY = keyBaseY - PressDepth
  /\ keys["KeyA"].posY > keys["KeyA"].targetY
  /\ keys["KeyA"].posY < keyBaseY
  /\ ~keys["Space"].isPressed
  /\ keys["Space"].targetY = keyBaseY
  /\ keys["Space"].posY < keyBaseY
  /\ lastInput = "keyup"

\* C30 (as claimed): whenever a key-down has made the key indicator
\* visible, the indicator eventually loses its 'visible' state, whatever
\* key-up, blur and theme rebuild happen in between
C30_IndicatorHides == indicatorVisible ~> ~indicatorVisible

====
